---- MODULE Spec2Model ----
(***************************************************************************)
(* HeadingBlankLines.apply of obsidian-linter                               *)
(* (src/rules/heading-blank-lines.ts).                                      *)
(*                                                                         *)
(* A text is a sequence of one-character strings.  A document is a text in *)
(* which a protected region (code block, frontmatter, link, wiki-link,     *)
(* tag) is one token naming the region; RegionContent gives its            *)
(* characters.  ignoreListOfTypes replaces every region by the placeholder *)
(* of its type, runs the callback of apply on the masked text and puts the *)
(* regions back.  The callback is a fixed list of String.replace calls;    *)
(* each is modelled by a left-to-right scan that does what the JavaScript  *)
(* regular expression does (greedy quantifiers, \s matching a newline, a   *)
(* dot not matching one, ^ and $ with and without the m flag, the g flag). *)
(***************************************************************************)
EXTENDS Naturals, Sequences, FiniteSets

VARIABLES doc, opts, text, stored, pc, iters

vars == <<doc, opts, text, stored, pc, iters>>

----------------------------------------------------------------------------
(* Bounds of the model. *)

MaxLines == 4

----------------------------------------------------------------------------
(* Characters. *)

NL == "\n"

\* \s of a JavaScript regular expression, on the characters of the model
IsSpace(c) == c \in {" ", "\n", "\t"}

\* the dot of a JavaScript regular expression (no s flag)
IsDot(c) == c # NL

----------------------------------------------------------------------------
(* Protected regions and their placeholders (utils/ignore-types). *)

IgnoreTypes == <<"code", "yaml", "link", "wikiLink", "tag">>

RegionIds == {"code1", "yaml1", "link1", "tag1", "yamlEx"}

RegionType(r) ==
  CASE r = "code1" -> "code"
    [] r = "link1" -> "link"
    [] r = "tag1" -> "tag"
    [] r \in {"yaml1", "yamlEx"} -> "yaml"
    [] OTHER -> "none"

RegionContent(r) ==
  CASE r = "code1" ->
         <<"~", "~", "~", "\n", "#", " ", "x", "\n", "\n", "\n", "#", " ", "y", "\n", "~", "~", "~">>
    [] r = "link1" -> <<"[", "#", " ", "t", "]", "(", "u", ")">>
    [] r = "tag1" -> <<"#", "t">>
    [] r = "yaml1" -> <<"-", "-", "-", "\n", "#", " ", "k", "\n", "\n", "-", "-", "-">>
    [] r = "yamlEx" ->
         <<"-", "-", "-", "\n", "k", "e", "y", ":", " ", "v", "a", "l", "u", "e", "\n", "-", "-", "-">>
    [] OTHER -> <<r>>

Placeholder(ty) ==
  CASE ty = "code" -> "{CODE}"
    [] ty = "yaml" -> "{YAML}"
    [] ty = "link" -> "{LINK}"
    [] ty = "wikiLink" -> "{WIKI}"
    [] ty = "tag" -> "{TAG}"

Placeholders == {Placeholder(IgnoreTypes[k]) : k \in 1..Len(IgnoreTypes)}

IsRegion(c) == c \in RegionIds

\* the text of a document: every region token replaced by its characters
RECURSIVE Flatten(_)
Flatten(d) ==
  IF d = <<>> THEN <<>>
  ELSE (IF IsRegion(Head(d)) THEN RegionContent(Head(d)) ELSE <<Head(d)>>)
       \o Flatten(Tail(d))

\* replace every region of type ty by the placeholder of ty
MaskType(t, ty) ==
  [k \in 1..Len(t) |->
     IF IsRegion(t[k]) /\ RegionType(t[k]) = ty THEN Placeholder(ty) ELSE t[k]]

\* the regions of type ty, left to right
RegionsOfType(t, ty) ==
  SelectSeq(t, LAMBDA c : IsRegion(c) /\ RegionType(c) = ty)

RECURSIVE MaskFrom(_, _)
MaskFrom(t, k) ==
  IF k > Len(IgnoreTypes) THEN t
  ELSE MaskFrom(MaskType(t, IgnoreTypes[k]), k + 1)

\* the masked text handed to the callback
Mask(d) == MaskFrom(d, 1)

RECURSIVE StoredFrom(_, _)
StoredFrom(d, k) ==
  IF k > Len(IgnoreTypes) THEN <<>>
  ELSE RegionsOfType(d, IgnoreTypes[k]) \o StoredFrom(d, k + 1)

\* the replaced values, type by type in the order of IgnoreTypes
Stored(d) == StoredFrom(d, 1)

\* index in st of the first stored region whose placeholder is p, or 0
RECURSIVE FirstStored(_, _, _)
FirstStored(st, p, k) ==
  IF k > Len(st) THEN 0
  ELSE IF Placeholder(RegionType(st[k])) = p THEN k
  ELSE FirstStored(st, p, k + 1)

RemoveAt(s, k) == SubSeq(s, 1, k - 1) \o SubSeq(s, k + 1, Len(s))

\* put each stored region back in place of the next placeholder of its type;
\* a placeholder with no stored region left stays in the text
RECURSIVE RestoreFrom(_, _, _)
RestoreFrom(t, i, st) ==
  IF i > Len(t) THEN <<>>
  ELSE LET k == IF t[i] \in Placeholders THEN FirstStored(st, t[i], 1) ELSE 0
       IN  IF k # 0
           THEN <<st[k]>> \o RestoreFrom(t, i + 1, RemoveAt(st, k))
           ELSE <<t[i]>> \o RestoreFrom(t, i + 1, st)

Restore(t, st) == RestoreFrom(t, 1, st)

\* end (exclusive) of the match of yamlRegex at the start of the masked text,
\* or 0: the frontmatter placeholder followed by a newline or the end
YamlRegexEnd(t) ==
  IF Len(t) >= 1 /\ t[1] = Placeholder("yaml") /\ (Len(t) = 1 \/ t[2] = NL)
  THEN 2 ELSE 0

----------------------------------------------------------------------------
(* Pieces of the regular expressions of apply. *)

RECURSIVE SkipHash(_, _)
\* #+ from i: the index after the run of hashes
SkipHash(t, i) == IF i <= Len(t) /\ t[i] = "#" THEN SkipHash(t, i + 1) ELSE i

RECURSIVE SkipDot(_, _)
\* .* from i: the index after the rest of the line
SkipDot(t, i) == IF i <= Len(t) /\ IsDot(t[i]) THEN SkipDot(t, i + 1) ELSE i

RECURSIVE SkipNL(_, _)
\* \n+ from i: the index after the run of newlines
SkipNL(t, i) == IF i <= Len(t) /\ t[i] = NL THEN SkipNL(t, i + 1) ELSE i

\* #+\s.* at i: the index after the match, or 0 when there is none
MatchHeading(t, i) ==
  IF i <= Len(t) /\ t[i] = "#"
  THEN LET j == SkipHash(t, i)
       IN  IF j <= Len(t) /\ IsSpace(t[j]) THEN SkipDot(t, j + 1) ELSE 0
  ELSE 0

\* ^ under the m flag
AtLineStart(t, i) == i = 1 \/ t[i - 1] = NL

----------------------------------------------------------------------------
(* The replace calls of the callback of apply. *)

RECURSIVE TrimAfterFrom(_, _, _)
TrimAfterFrom(t, i, nl) ==
  IF i > Len(t) THEN <<>>
  ELSE LET h == IF AtLineStart(t, i) THEN MatchHeading(t, i) ELSE 0
       IN  IF h # 0 /\ h <= Len(t) /\ t[h] = NL
           THEN SubSeq(t, i, h - 1) \o nl \o TrimAfterFrom(t, SkipNL(t, h), nl)
           ELSE <<t[i]>> \o TrimAfterFrom(t, i + 1, nl)

\* text.replace(/(^#+\s.*)\n+/gm, '$1' + nl)
TrimBlankLinesAfterHeadings(t, nl) == TrimAfterFrom(t, 1, nl)

RECURSIVE TrimBeforeFrom(_, _)
TrimBeforeFrom(t, i) ==
  IF i > Len(t) THEN <<>>
  ELSE LET j == SkipNL(t, i)
           h == IF j > i THEN MatchHeading(t, j) ELSE 0
       IN  IF h # 0
           THEN <<NL, NL>> \o SubSeq(t, j, h - 1) \o TrimBeforeFrom(t, h)
           ELSE <<t[i]>> \o TrimBeforeFrom(t, i + 1)

RECURSIVE TrimBeforeDroppingFrom(_, _)
TrimBeforeDroppingFrom(t, i) ==
  IF i > Len(t) THEN <<>>
  ELSE LET j == SkipNL(t, i)
           h == IF j > i THEN MatchHeading(t, j) ELSE 0
       IN  IF h # 0
           THEN SubSeq(t, j, h - 1) \o TrimBeforeDroppingFrom(t, h)
           ELSE <<t[i]>> \o TrimBeforeDroppingFrom(t, i + 1)

\* the replacement written '$1': the heading joins the line before it
TrimBeforeDroppingNewlines(t) == TrimBeforeDroppingFrom(t, 1)

\* text.replace(/\n+(#+\s.*)/g, '\n\n$1')
TrimBlankLinesBeforeHeadings(t) == TrimBeforeFrom(t, 1)

RECURSIVE AddAroundFrom(_, _)
AddAroundFrom(t, i) ==
  IF i > Len(t) THEN <<>>
  ELSE LET h == IF AtLineStart(t, i) THEN MatchHeading(t, i) ELSE 0
       IN  IF h # 0
           THEN <<NL, NL>> \o SubSeq(t, i, h - 1) \o <<NL, NL>> \o AddAroundFrom(t, h)
           ELSE <<t[i]>> \o AddAroundFrom(t, i + 1)

\* text.replace(/^(#+\s.*)/gm, '\n\n$1\n\n')
AddBlankLineBeforeAndAfterHeadings(t) == AddAroundFrom(t, 1)

\* (#+\s.*)\n\n+(#+\s.*) at i: <<end of $1, start of $2, end of $2>>, or <<>>
MatchTwoHeadings(t, i) ==
  LET h1 == MatchHeading(t, i)
  IN  IF h1 # 0 /\ h1 + 1 <= Len(t) /\ t[h1] = NL /\ t[h1 + 1] = NL
      THEN LET k  == SkipNL(t, h1)
               h2 == MatchHeading(t, k)
           IN  IF h2 # 0 THEN <<h1, k, h2>> ELSE <<>>
      ELSE <<>>

\* text.match(/(#+\s.*)\n\n+(#+\s.*)/gm)
HasBlankLinesBetweenHeadings(t) ==
  \E i \in 1..Len(t) : MatchTwoHeadings(t, i) # <<>>

RECURSIVE BetweenFrom(_, _)
BetweenFrom(t, i) ==
  IF i > Len(t) THEN <<>>
  ELSE LET m == MatchTwoHeadings(t, i)
       IN  IF m # <<>>
           THEN SubSeq(t, i, m[1] - 1) \o <<NL>> \o SubSeq(t, m[2], m[3] - 1)
                \o BetweenFrom(t, m[3])
           ELSE <<t[i]>> \o BetweenFrom(t, i + 1)

RECURSIVE KeepTwoFrom(_, _)
KeepTwoFrom(t, i) ==
  IF i > Len(t) THEN <<>>
  ELSE LET m == MatchTwoHeadings(t, i)
       IN  IF m # <<>>
           THEN SubSeq(t, i, m[1] - 1) \o <<NL, NL>> \o SubSeq(t, m[2], m[3] - 1)
                \o KeepTwoFrom(t, m[3])
           ELSE <<t[i]>> \o KeepTwoFrom(t, i + 1)

\* the replacement written '$1\n\n$2': a blank line stays between the headings
KeepTwoNewlinesBetweenHeadings(t) == KeepTwoFrom(t, 1)

\* text.replace(/(#+\s.*)\n\n+(#+\s.*)/gm, '$1\n$2')
RemoveBlankLinesBetweenHeadings(t) == BetweenFrom(t, 1)

\* text.replace(/^\n+(#+\s.*)/, '$1')
RemoveBlankLinesBeforeFirstHeading(t) ==
  LET j == SkipNL(t, 1)
  IN  IF j > 1 /\ MatchHeading(t, j) # 0 THEN SubSeq(t, j, Len(t)) ELSE t

\* (#+\s.*)\n+$ at i: the end of $1, or 0
MatchLastHeading(t, i) ==
  LET h == MatchHeading(t, i)
  IN  IF h # 0 /\ h <= Len(t) /\ t[h] = NL /\ SkipNL(t, h) = Len(t) + 1
      THEN h ELSE 0

\* the replacement written '': the last heading goes with its blank lines
RemoveLastHeadingToo(t) ==
  LET S == {i \in 1..Len(t) : MatchLastHeading(t, i) # 0}
  IN  IF S = {} THEN t
      ELSE SubSeq(t, 1, (CHOOSE x \in S : \A y \in S : x <= y) - 1)

\* the statement left out
KeepBlankLinesAfterLastHeading(t) == t

\* text.replace(/(#+\s.*)\n+$/, '$1'): the leftmost match is the one replaced
RemoveBlankLinesAfterLastHeading(t) ==
  LET S == {i \in 1..Len(t) : MatchLastHeading(t, i) # 0}
  IN  IF S = {} THEN t
      ELSE LET i == CHOOSE x \in S : \A y \in S : x <= y
           IN  SubSeq(t, 1, MatchLastHeading(t, i) - 1)

\* the replacement written '$1\n\n$5': one blank line stays
KeepOneBlankLineAfterYaml(t) ==
  LET y == YamlRegexEnd(t)
      j == IF y # 0 THEN SkipNL(t, y) ELSE 0
  IN  IF y # 0 /\ j > y /\ MatchHeading(t, j) # 0
      THEN SubSeq(t, 1, y - 1) \o <<NL, NL>> \o SubSeq(t, j, Len(t))
      ELSE t

\* text.replace(new RegExp('(' + yamlRegex.source + ')\\n+(#+\\s.*)'), '$1\n$5')
RemoveBlankLinesAfterYaml(t) ==
  LET y == YamlRegexEnd(t)
      j == IF y # 0 THEN SkipNL(t, y) ELSE 0
  IN  IF y # 0 /\ j > y /\ MatchHeading(t, j) # 0
      THEN SubSeq(t, 1, y - 1) \o <<NL>> \o SubSeq(t, j, Len(t))
      ELSE t

\* the if (!options.bottom) ... else ... of the callback
BottomPass(t, o) ==
  IF ~o.bottom
  THEN TrimBlankLinesBeforeHeadings(TrimBlankLinesAfterHeadings(t, <<NL>>))
  ELSE TrimBlankLinesAfterHeadings(
         TrimBlankLinesBeforeHeadings(AddBlankLineBeforeAndAfterHeadings(t)),
         <<NL, NL>>)

RECURSIVE BlankSectionsLoop(_)
\* while (text.match(...)) { text = text.replace(...) }
BlankSectionsLoop(t) ==
  IF HasBlankLinesBetweenHeadings(t)
  THEN BlankSectionsLoop(RemoveBlankLinesBetweenHeadings(t))
  ELSE t

\* the callback handed to ignoreListOfTypes
Callback(t, o) ==
  LET t1 == BottomPass(t, o)
      t2 == IF ~o.emptyLineInBlankSections THEN BlankSectionsLoop(t1) ELSE t1
      t3 == RemoveBlankLinesAfterLastHeading(RemoveBlankLinesBeforeFirstHeading(t2))
  IN  IF ~o.emptyLineAfterYaml THEN RemoveBlankLinesAfterYaml(t3) ELSE t3

\* ignoreListOfTypes(types, text, func)
IgnoreListOfTypes(d, o) == Restore(Callback(Mask(d), o), Stored(d))

\* HeadingBlankLines.apply
Apply(d, o) == IgnoreListOfTypes(d, o)

----------------------------------------------------------------------------
(* The examples of exampleBuilders (dedent applied). *)

DefaultOptions ==
  [bottom |-> TRUE, emptyLineAfterYaml |-> TRUE, emptyLineInBlankSections |-> TRUE]

Ex1Before ==
  <<"#", " ", "H", "1", "\n", "#", "#", " ", "H", "2", "\n", "\n", "\n", "#", " ", "H", "1", "\n", "l", "i", "n", "e", "\n", "#", "#", " ", "H", "2", "\n">>
Ex1After ==
  <<"#", " ", "H", "1", "\n", "\n", "#", "#", " ", "H", "2", "\n", "\n", "#", " ", "H", "1", "\n", "\n", "l", "i", "n", "e", "\n", "\n", "#", "#", " ", "H", "2">>
Ex2Before ==
  <<"#", " ", "H", "1", "\n", "l", "i", "n", "e", "\n", "#", "#", " ", "H", "2", "\n", "#", " ", "H", "1", "\n", "l", "i", "n", "e">>
Ex2After ==
  <<"#", " ", "H", "1", "\n", "l", "i", "n", "e", "\n", "\n", "#", "#", " ", "H", "2", "\n", "\n", "#", " ", "H", "1", "\n", "l", "i", "n", "e">>
Ex3After ==
  <<"#", " ", "H", "1", "\n", "\n", "l", "i", "n", "e", "\n", "\n", "#", "#", " ", "H", "2", "\n", "#", " ", "H", "1", "\n", "\n", "l", "i", "n", "e">>
Ex4After ==
  <<"#", " ", "H", "1", "\n", "l", "i", "n", "e", "\n", "\n", "#", "#", " ", "H", "2", "\n", "#", " ", "H", "1", "\n", "l", "i", "n", "e">>
Ex5Before ==
  <<"#", " ", "H", "1", "\n", "l", "i", "n", "e", "\n", "#", "#", " ", "H", "2", "\n", "#", "#", " ", "H", "2", "\n", "#", " ", "H", "1", "\n", "l", "i", "n", "e">>
Ex5After ==
  <<"#", " ", "H", "1", "\n", "l", "i", "n", "e", "\n", "\n", "#", "#", " ", "H", "2", "\n", "#", "#", " ", "H", "2", "\n", "#", " ", "H", "1", "\n", "l", "i", "n", "e">>
\* the frontmatter of the last example is the region yamlEx
Ex6Before ==
  <<"yamlEx", "\n", "#", " ", "H", "e", "a", "d", "e", "r", "\n", "P", "a", "r", "a", "g", "r", "a", "p", "h", " ", "h", "e", "r", "e", ".", ".", ".">>
Ex6After ==
  <<"yamlEx", "\n", "#", " ", "H", "e", "a", "d", "e", "r", "\n", "\n", "P", "a", "r", "a", "g", "r", "a", "p", "h", " ", "h", "e", "r", "e", ".", ".", ".">>

exampleBuilders ==
  << [before |-> Ex1Before, after |-> Ex1After, options |-> DefaultOptions],
     [before |-> Ex2Before, after |-> Ex2After,
      options |-> [bottom |-> FALSE, emptyLineAfterYaml |-> TRUE,
                   emptyLineInBlankSections |-> TRUE]],
     [before |-> Ex2Before, after |-> Ex3After,
      options |-> [bottom |-> TRUE, emptyLineAfterYaml |-> TRUE,
                   emptyLineInBlankSections |-> FALSE]],
     [before |-> Ex2Before, after |-> Ex4After,
      options |-> [bottom |-> FALSE, emptyLineAfterYaml |-> TRUE,
                   emptyLineInBlankSections |-> FALSE]],
     [before |-> Ex5Before, after |-> Ex5After,
      options |-> [bottom |-> FALSE, emptyLineAfterYaml |-> TRUE,
                   emptyLineInBlankSections |-> FALSE]],
     [before |-> Ex6Before, after |-> Ex6After,
      options |-> [bottom |-> TRUE, emptyLineAfterYaml |-> FALSE,
                   emptyLineInBlankSections |-> TRUE]] >>

----------------------------------------------------------------------------
(* The inputs: documents of at most MaxLines lines, every option value. *)

\* an empty line, a line of one space, a line of one hash, a heading whose
\* text is a link, a body line that is a code block, a body line with "# " in
\* its middle
LineShapes ==
  { <<>>, <<" ">>, <<"#">>, <<"#", " ", "link1">>, <<"code1">>,
    <<"a", " ", "#", " ", "tag1">> }

\* the frontmatter can only be the first line of a document
FirstLineShapes == LineShapes \cup { <<"yaml1">> }

RECURSIVE JoinLines(_)
JoinLines(ls) ==
  IF Len(ls) = 1 THEN ls[1] ELSE ls[1] \o <<NL>> \o JoinLines(Tail(ls))

Documents ==
  { JoinLines(ls) :
      ls \in UNION { { f \in [1..n -> FirstLineShapes] :
                         \A k \in 2..n : f[k] \in LineShapes } : n \in 1..MaxLines } }

AllOptions ==
  [bottom : BOOLEAN, emptyLineAfterYaml : BOOLEAN, emptyLineInBlankSections : BOOLEAN]

----------------------------------------------------------------------------
(* One call of apply, statement by statement. *)

Init ==
  /\ \/ doc \in Documents /\ opts \in AllOptions
     \/ \E e \in 1..Len(exampleBuilders) :
          doc = exampleBuilders[e].before /\ opts = exampleBuilders[e].options
  /\ text = doc
  /\ stored = <<>>
  /\ pc = "start"
  /\ iters = 0

\* ignoreListOfTypes replaces the protected regions by placeholders
MaskRegions ==
  /\ pc = "start"
  /\ text' = Mask(text)
  /\ stored' = Stored(text)
  /\ pc' = "bottom"
  /\ UNCHANGED <<doc, opts, iters>>

BottomFalse ==
  /\ pc = "bottom"
  /\ ~opts.bottom
  /\ text' = TrimBlankLinesBeforeHeadings(TrimBlankLinesAfterHeadings(text, <<NL>>))
  /\ pc' = "blank"
  /\ UNCHANGED <<doc, opts, stored, iters>>

BottomTrue ==
  /\ pc = "bottom"
  /\ opts.bottom
  /\ text' = TrimBlankLinesAfterHeadings(
               TrimBlankLinesBeforeHeadings(AddBlankLineBeforeAndAfterHeadings(text)),
               <<NL, NL>>)
  /\ pc' = "blank"
  /\ UNCHANGED <<doc, opts, stored, iters>>

\* one turn of the while loop
BlankSectionsIter ==
  /\ pc = "blank"
  /\ ~opts.emptyLineInBlankSections
  /\ HasBlankLinesBetweenHeadings(text)
  /\ text' = RemoveBlankLinesBetweenHeadings(text)
  /\ iters' = iters + 1
  /\ UNCHANGED <<doc, opts, stored, pc>>

\* an if in place of the while: the loop is left after one turn
BlankSectionsDoneAfterOneTurn ==
  /\ pc = "blank"
  /\ opts.emptyLineInBlankSections \/ ~HasBlankLinesBetweenHeadings(text) \/ iters >= 1
  /\ pc' = "strip"
  /\ UNCHANGED <<doc, opts, text, stored, iters>>

\* the option is set, or the loop condition is false
BlankSectionsDone ==
  /\ pc = "blank"
  /\ opts.emptyLineInBlankSections \/ ~HasBlankLinesBetweenHeadings(text)
  /\ pc' = "strip"
  /\ UNCHANGED <<doc, opts, text, stored, iters>>

StripFirstLast ==
  /\ pc = "strip"
  /\ text' = RemoveBlankLinesAfterLastHeading(RemoveBlankLinesBeforeFirstHeading(text))
  /\ pc' = "yaml"
  /\ UNCHANGED <<doc, opts, stored, iters>>

YamlPass ==
  /\ pc = "yaml"
  /\ ~opts.emptyLineAfterYaml
  /\ text' = RemoveBlankLinesAfterYaml(text)
  /\ pc' = "restore"
  /\ UNCHANGED <<doc, opts, stored, iters>>

YamlSkip ==
  /\ pc = "yaml"
  /\ opts.emptyLineAfterYaml
  /\ pc' = "restore"
  /\ UNCHANGED <<doc, opts, text, stored, iters>>

\* ignoreListOfTypes puts the replaced values back and returns
RestoreRegions ==
  /\ pc = "restore"
  /\ text' = Restore(text, stored)
  /\ pc' = "done"
  /\ UNCHANGED <<doc, opts, stored, iters>>

Next ==
  \/ MaskRegions
  \/ BottomFalse
  \/ BottomTrue
  \/ BlankSectionsIter
  \/ BlankSectionsDone
  \/ StripFirstLast
  \/ YamlPass
  \/ YamlSkip
  \/ RestoreRegions

Spec == Init /\ [][Next]_vars

----------------------------------------------------------------------------
(* Vocabulary of the properties. *)

RECURSIVE LinesFrom(_, _)
LinesFrom(t, i) ==
  LET e == SkipDot(t, i)
  IN  <<SubSeq(t, i, e - 1)>> \o (IF e > Len(t) THEN <<>> ELSE LinesFrom(t, e + 1))

\* the lines of a text, split at the newlines
Lines(t) == LinesFrom(t, 1)

\* a line beginning with one or more hashes followed by whitespace and text
IsHeadingLine(l) ==
  /\ l # <<>>
  /\ l[1] = "#"
  /\ LET j == SkipHash(l, 1) IN j <= Len(l) /\ l[j] \in {" ", "\t"}

\* a blank line: a line with no character
IsBlankLine(l) == l = <<>>

HeadingCount(t) ==
  LET L == Lines(t) IN Cardinality({k \in 1..Len(L) : IsHeadingLine(L[k])})

\* the number of blank lines right before / right after line k of L
RECURSIVE BlankBefore(_, _)
BlankBefore(L, k) ==
  IF k > 1 /\ IsBlankLine(L[k - 1]) THEN 1 + BlankBefore(L, k - 1) ELSE 0

RECURSIVE BlankAfter(_, _)
BlankAfter(L, k) ==
  IF k < Len(L) /\ IsBlankLine(L[k + 1]) THEN 1 + BlankAfter(L, k + 1) ELSE 0

RegionsIn(t) == SelectSeq(t, IsRegion)

PlaceholdersIn(t) == SelectSeq(t, LAMBDA c : c \in Placeholders)

\* s occurs in t as a run of consecutive characters
Contains(t, s) ==
  \E i \in 0..(Len(t) - Len(s)) : SubSeq(t, i + 1, i + Len(s)) = s

InCallback == pc \in {"bottom", "blank", "strip", "yaml", "restore"}

Done == pc = "done"

----------------------------------------------------------------------------
(* C1.  Idempotence: applying the rule to its own result, with the same    *)
(* options, gives that result again.                                       *)
Idempotence == Done => Apply(text, opts) = text

----------------------------------------------------------------------------
(* C2.  Region preservation: the replace calls run on a text in which      *)
(* every protected region is a placeholder, they keep the placeholders and *)
(* their order, and the result holds every region of the document, in      *)
(* the same order, with its exact content.                                 *)
PlaceholdersOf(d) ==
  [k \in 1..Len(RegionsIn(d)) |-> Placeholder(RegionType(RegionsIn(d)[k]))]

RegionPreservation ==
  /\ InCallback =>
       /\ RegionsIn(text) = <<>>
       /\ PlaceholdersIn(text) = PlaceholdersOf(doc)
  /\ Done =>
       /\ PlaceholdersIn(text) = <<>>
       /\ RegionsIn(text) = RegionsIn(doc)
       /\ \A k \in 1..Len(doc) :
            IsRegion(doc[k]) => Contains(Flatten(text), RegionContent(doc[k]))

\* a document with three kinds of region whose headings were moved
RegionPreservationWitness ==
  /\ Done
  /\ text # doc
  /\ {RegionType(doc[k]) : k \in 1..Len(doc)} \cap {"yaml", "link", "code"}
       = {"yaml", "link", "code"}

----------------------------------------------------------------------------
(* C3.  Heading count invariance: the result has as many heading lines as  *)
(* the document; the replace calls insert and delete newlines only.        *)
NonNewlines(t) == SelectSeq(t, LAMBDA c : c # NL)

HeadingCountInvariance ==
  /\ InCallback =>
       /\ NonNewlines(text) = NonNewlines(Mask(doc))
       /\ HeadingCount(text) = HeadingCount(Mask(doc))
  /\ Done => HeadingCount(Flatten(text)) = HeadingCount(Flatten(doc))

\* two headings of the document end up with other blank lines around them
HeadingCountWitness ==
  /\ Done
  /\ text # doc
  /\ HeadingCount(Mask(doc)) >= 2

----------------------------------------------------------------------------
(* C4.  Bottom=true spacing: with bottom set, every heading of the result  *)
(* that is neither its first nor its last line has exactly one blank line  *)
(* before it and exactly one after it.  Stated for the option values under *)
(* which no later pass is asked to remove one of these blank lines.        *)
BottomTrueSpacing ==
  (Done /\ opts.bottom /\ opts.emptyLineInBlankSections /\ opts.emptyLineAfterYaml) =>
    LET L == Lines(text)
    IN  \A k \in 2..(Len(L) - 1) :
          IsHeadingLine(L[k]) => BlankBefore(L, k) = 1 /\ BlankAfter(L, k) = 1

----------------------------------------------------------------------------
(* C5.  Bottom=false trimming: with bottom unset, every heading of the     *)
(* result has at most one blank line after it, and every heading that is   *)
(* not the first line has exactly one blank line before it.  Stated for    *)
(* the option values under which no later pass is asked to remove it.      *)
BottomFalseTrimming ==
  (Done /\ ~opts.bottom /\ opts.emptyLineInBlankSections /\ opts.emptyLineAfterYaml) =>
    LET L == Lines(text)
    IN  \A k \in 1..Len(L) :
          IsHeadingLine(L[k]) =>
            /\ BlankAfter(L, k) <= 1
            /\ k > 1 => BlankBefore(L, k) = 1

----------------------------------------------------------------------------
(* C6.  Example oracle: for each example of exampleBuilders, apply on its  *)
(* before text with its options returns its after text, character for      *)
(* character.                                                              *)
ExampleOracle ==
  \A e \in 1..Len(exampleBuilders) :
    (Done /\ doc = exampleBuilders[e].before /\ opts = exampleBuilders[e].options)
      => Flatten(text) = Flatten(exampleBuilders[e].after)

\* the first example has run: the trailing newline after the last heading is gone
ExampleOracleWitness ==
  Done /\ doc = Ex1Before /\ opts = DefaultOptions /\ text = Ex1After

----------------------------------------------------------------------------
(* C7.  Blank sections: with emptyLineInBlankSections unset, from the end  *)
(* of the loop on, no two heading lines have only blank lines (one or      *)
(* more) between them, whatever bottom is.                                 *)
BlankSection(L, i, j) ==
  /\ i + 1 < j
  /\ IsHeadingLine(L[i])
  /\ IsHeadingLine(L[j])
  /\ \A k \in (i + 1)..(j - 1) : IsBlankLine(L[k])

----------------------------------------------------------------------------
(* C8.  Frontmatter gap: when the document is a frontmatter block, blank   *)
(* lines (none, one or more) and a heading, and emptyLineAfterYaml is      *)
(* unset, the result is the frontmatter, one newline and, from the heading *)
(* on, what apply returns with emptyLineAfterYaml set.                     *)
YamlThenHeading(d) ==
  /\ Len(d) >= 3
  /\ IsRegion(d[1])
  /\ RegionType(d[1]) = "yaml"
  /\ d[2] = NL
  /\ IsHeadingLine(SubSeq(d, SkipNL(d, 2), SkipDot(d, SkipNL(d, 2)) - 1))

\* the text from the first heading after the frontmatter on
FromHeading(t) == SubSeq(t, SkipNL(t, 2), Len(t))

----------------------------------------------------------------------------
(* C9.  Totality and termination: every step of a call of apply either   *)
(* moves on to a later statement or is a turn of the blank-section loop    *)
(* that makes the text shorter.  So every call returns after finitely many *)
(* steps, and the loop takes at most as many turns as the text has         *)
(* characters.  (A statement that raised an error would be an expression   *)
(* without a value: SubSeq, CHOOSE and the indexing are total on every     *)
(* reachable text.)                                                        *)
PcRank(p) ==
  CASE p = "start" -> 6
    [] p = "bottom" -> 5
    [] p = "blank" -> 4
    [] p = "strip" -> 3
    [] p = "yaml" -> 2
    [] p = "restore" -> 1
    [] p = "done" -> 0

TerminationOfApply ==
  [][ \/ PcRank(pc') < PcRank(pc)
      \/ pc' = pc /\ pc = "blank" /\ Len(text') < Len(text) ]_vars

\* the loop took two turns and apply returned
TerminationWitness == Done /\ iters >= 2 /\ Len(text) < Len(doc)

----------------------------------------------------------------------------
(* C10.  Frame: a document with no heading line is returned unchanged.     *)
(* Stated for the documents none of whose lines begins with a hash.        *)
NoLineBeginsWithHash(t) ==
  LET L == Lines(t) IN \A k \in 1..Len(L) : L[k] = <<>> \/ L[k][1] # "#"

FrameWithoutHeadings ==
  (Done /\ NoLineBeginsWithHash(Flatten(doc))) => text = doc

====
